---- MODULE Spec2Model ----
(***************************************************************************)
(* EIVA front-end (sarthak30304499/eiva-app): the prompt pipeline          *)
(* (services/geminiService.ts, services/agentConfig.ts), the AI chat       *)
(* (components/AIChat.tsx), the ask-question form and its handler          *)
(* (AskQuestion.handleSubmit, App.handleAskQuestion), the posts feed and   *)
(* the auth/profile reads of the two storage services.                     *)
(***************************************************************************)
EXTENDS Integers, Sequences, FiniteSets, TLC

\* ------------------------------------------------------------- bounds
\* AIChat.handleSend invocations in one run
MaxSends == 2
\* AskQuestion.handleSubmit calls in one run
MaxSubmits == 2
\* fetchAll calls in flight together
MaxFetches == 2
\* auth events handled in one run
MaxAuthEvents == 2
\* posts written in one run
MaxRows == 2
\* log-ins submitted in one run
MaxLogins == 2
\* times AIChat is mounted again in one run
MaxMounts == 1
\* recognition sessions started in one run
MaxSessions == 2
\* UserChat.handleSend calls in one run
MaxChatSends == 2
\* toggleVote calls in one run
MaxVotes == 3
\* toggleFollow calls in one run
MaxFollows == 3
\* refreshSelf runs started by notifications in one run
MaxRefreshes == 2
\* loadMessages calls in one run
MaxLoads == 2

\* ------------------------------------------------------------- text
\* typed text is a sequence of characters; " " stands for white space
Chars == {" ", "a"}

\* the drafts a user types: empty, white space only, text in white space
Texts == {<<>>, <<" ">>, <<" ", "a", " ">>}

RECURSIVE TrimStart(_)
TrimStart(s) ==
    IF s = <<>> THEN s
    ELSE IF Head(s) = " " THEN TrimStart(Tail(s)) ELSE s

RECURSIVE TrimEnd(_)
TrimEnd(s) ==
    IF s = <<>> THEN s
    ELSE IF s[Len(s)] = " " THEN TrimEnd(SubSeq(s, 1, Len(s) - 1)) ELSE s

\* String.prototype.trim
Trim(s) == TrimEnd(TrimStart(s))

\* ------------------------------------------------------------- agents
Labels ==
    {"CODE_EXPLAINER", "NOTES_GENERATOR", "VIVA_QUESTION", "STUDY_PLANNER",
     "ASSIGNMENT_ASSISTANT", "GENERAL"}

\* the static table of agentConfig.ts (instruction: the preset's first sentence)
AGENTS ==
    [l \in Labels |->
        CASE l = "CODE_EXPLAINER" ->
               [id |-> "code_explainer_agent", model |-> "gemini-1.5-flash",
                instruction |-> "You are the Code Explainer Agent of EIVA AI."]
          [] l = "NOTES_GENERATOR" ->
               [id |-> "notes_generator_agent", model |-> "gemini-1.5-flash",
                instruction |-> "You are the Notes Generator Agent of EIVA AI."]
          [] l = "VIVA_QUESTION" ->
               [id |-> "viva_question_agent", model |-> "gemini-1.5-flash",
                instruction |-> "You are the Viva Question Agent of EIVA AI."]
          [] l = "STUDY_PLANNER" ->
               [id |-> "study_planner_agent", model |-> "gemini-1.5-flash",
                instruction |-> "You are the Study Planner Agent of EIVA AI."]
          [] l = "ASSIGNMENT_ASSISTANT" ->
               [id |-> "assignment_assistant_agent", model |-> "gemini-1.5-flash",
                instruction |-> "You are the Assignment Assistant Agent of EIVA AI."]
          [] OTHER ->
               [id |-> "general_agent", model |-> "gemini-1.5-flash",
                instruction |-> "You are EIVA, a helpful assistant for a Q&A community."]]

\* ------------------------------------------------------------- generateAIAnswer
\* what ai.models.generateContent can do: answer with text, answer with no
\* text, or reject
GenOutcomes == {"text", "empty", "error"}

ResponseText == "response.text"

\* the one request generateAIAnswer builds (geminiService.ts 19-30)
generateContentRequest(prompt, imagePart) ==
    [kind |-> "generate", model |-> "gemini-1.5-flash",
     instruction |-> "You are EIVA, a helpful, intelligent assistant.",
     prompt |-> prompt, image |-> imagePart]

\* a generateAIAnswer call up to its await: the requests it has issued
generateAIAnswer_start(prompt, imagePart) ==
    [status |-> "pending", requests |-> <<generateContentRequest(prompt, imagePart)>>,
     outcome |-> "none", text |-> "", agentName |-> ""]

generateAIAnswer_settle_rethrow(ai, outcome) ==
    IF outcome = "error"
    THEN [ai EXCEPT !.status = "threw", !.outcome = outcome]
    ELSE [ai EXCEPT !.status = "returned", !.outcome = outcome,
                    !.text = ResponseText, !.agentName = "EIVA"]

\* the call once generateContent has settled (geminiService.ts 32-40)
generateAIAnswer_settle(ai, outcome) ==
    CASE outcome = "text" ->
           [ai EXCEPT !.status = "returned", !.outcome = outcome,
                      !.text = ResponseText, !.agentName = "EIVA"]
      [] outcome = "empty" ->
           [ai EXCEPT !.status = "returned", !.outcome = outcome,
                      !.text = "I'm sorry, I couldn't generate an answer for that.",
                      !.agentName = "EIVA"]
      [] OTHER ->
           [ai EXCEPT !.status = "returned", !.outcome = outcome,
                      !.text = "Transmission error. Please try again later.",
                      !.agentName = "System Error"]

\* the second copy of the function in the same file (geminiService.ts 108-134)
generateAIAnswer_settle_2(ai, outcome) ==
    CASE outcome = "text" ->
           [ai EXCEPT !.status = "returned", !.outcome = outcome, !.text = ResponseText]
      [] outcome = "empty" ->
           [ai EXCEPT !.status = "returned", !.outcome = outcome,
                      !.text = "I'm sorry, I couldn't generate an answer for that."]
      [] OTHER ->
           [ai EXCEPT !.status = "returned", !.outcome = outcome,
                      !.text = "Transmission error. Please try again later."]

NoCall == [status |-> "none", requests |-> <<>>, outcome |-> "none", text |-> "",
           agentName |-> ""]

\* ------------------------------------------------------------- state
VARIABLES
    messages,      \* AIChat: the conversation
    input,         \* AIChat: the draft text
    selectedFile,  \* AIChat: an image is attached
    isLoading,     \* AIChat: a send is waiting for its answer
    sends,         \* AIChat: the handleSend invocations, in call order
    currentUser,   \* App: the signed-in user, or NoUser
    isAsking,      \* App: a submission is being handled
    toast,         \* App: the toast on screen, or NoToast
    ask,           \* App: the handleAskQuestion invocation under way (or the last)
    postSeq,       \* how many post ids handleAskQuestion has drawn
    title,         \* AskQuestion: the draft text
    askFile,       \* AskQuestion: selectedFile, an image is attached
    previewUrl,    \* AskQuestion: the preview of the attached image is shown
    submitEvents,  \* AskQuestion: how often handleSubmit was called
    posts,         \* backend: the rows of table posts
    pendingEvents, \* backend: change notifications not yet pushed to the client
    fetches,       \* listenToPosts: the fetchAll calls in flight
    fetchSeq,      \* listenToPosts: how many fetchAll calls were started
    questions,     \* App: the feed
    svc,           \* which storage service module the build bundles
    users,         \* backend: the rows of table users
    sessionUser,   \* backend: the user of the auth session, or "none"
    handlers,      \* listenToAuth: the runs of the auth state handler
    isAuthChecking, \* App: the auth spinner is shown
    appMode,       \* App: the mode chosen
    lastUserIdRef, \* App: lastUserIdRef.current
    posts11,       \* backend: table posts as the second storage service writes it
    written,       \* the Questions given to createPost
    readBack,      \* the Questions the posts fetch returned last
    failsafe,      \* App: the failsafe timer of the mount effect
    logins,        \* the log-ins of the login page and their onLogin calls
    email,         \* LoginPage: email
    password,      \* LoginPage: password
    isSignUp,      \* LoginPage: the form is in sign-up mode
    error,         \* LoginPage: the message shown, or NoError
    loading,       \* LoginPage: the form shows Processing...
    googleLoading, \* LoginPage: a Google log-in is under way
    submits,       \* LoginPage: the handleSubmit runs, in call order
    onLoginCalls,  \* LoginPage: how often onLogin was called
    stored,        \* localStorage: the item 'eiva-ai-history'
    mounts,        \* AIChat: how often it was mounted again
    status,        \* CallInterface: status
    transcript,    \* CallInterface: transcript
    aiResponse,    \* CallInterface: aiResponse
    errorMessage,  \* CallInterface: errorMessage
    recs,          \* CallInterface: the recognitions made; the last is recognitionRef.current
    silenceTimer,  \* CallInterface: silenceTimer.current
    queries,       \* CallInterface: the handleUserQuery runs
    utterance,     \* the utterance given to speechSynthesis
    sessions,      \* how often recognition.start() was called
    newMessage,    \* UserChat: the draft
    selectedUser,  \* UserChat: the id of the contact selected, or "none"
    chatMessages,  \* UserChat: messages, the conversation shown
    msgTable,      \* backend: the rows of table messages
    ucSends,       \* UserChat: the handleSend runs that passed the guard
    loads,         \* UserChat: the loadMessages runs
    ucSendEvents,  \* UserChat: how often handleSend was called
    likesTable,    \* backend: the rows of table likes
    likeSeq,       \* backend: the last id given to a row of likes
    votes,         \* App: the toggleVote runs
    followsTable,  \* backend: the rows of table follows
    followSeq,     \* backend: the last id given to a row of follows
    follows,       \* App: the toggleFollow runs
    refreshes      \* App: the refreshSelf runs started by realtime notifications

chatVars == <<messages, input, selectedFile, isLoading, sends>>

appVars == <<currentUser, isAsking, toast, ask, postSeq>>

formVars == <<title, askFile, previewUrl, submitEvents>>

feedVars == <<posts, pendingEvents, fetches, fetchSeq, questions>>

authVars == <<svc, users, sessionUser, handlers, isAuthChecking, appMode, lastUserIdRef>>

tripVars == <<posts11, written, readBack>>

startVars == <<failsafe, logins>>

\* the variables of the other components
lpVars == <<email, password, isSignUp, error, loading, googleLoading, submits, onLoginCalls>>

\* the variables of the other components
storeVars == <<stored, mounts>>

callVars == <<status, transcript, aiResponse, errorMessage, recs, silenceTimer, queries,
              utterance, sessions>>

ucVars == <<newMessage, selectedUser, chatMessages, msgTable, ucSends, loads, ucSendEvents>>

voteVars == <<likesTable, likeSeq, votes, followsTable, followSeq, follows>>

sessVars == <<refreshes>>

\* the variables of the other components
restVars == <<startVars, lpVars, storeVars, callVars, ucVars, voteVars, sessVars>>

exceptStart == <<lpVars, storeVars, callVars, ucVars, voteVars, sessVars>>

exceptLp == <<startVars, storeVars, callVars, ucVars, voteVars, sessVars>>

exceptStore == <<startVars, lpVars, callVars, ucVars, voteVars, sessVars>>

exceptCall == <<startVars, lpVars, storeVars, ucVars, voteVars, sessVars>>

exceptUc == <<startVars, lpVars, storeVars, callVars, voteVars, sessVars>>

exceptVote == <<startVars, lpVars, storeVars, callVars, ucVars, sessVars>>

exceptSess == <<startVars, lpVars, storeVars, callVars, ucVars, voteVars>>

oldVars == <<chatVars, appVars, formVars, feedVars, authVars, tripVars>>

sideVars == <<authVars, tripVars, restVars>>

vars == <<chatVars, appVars, formVars, feedVars, authVars, tripVars, restVars>>

\* ------------------------------------------------------------- localStorage
\* localStorage.getItem of a key that is not set
NoItem == [present |-> FALSE, json |-> <<>>]

\* JSON.stringify of one ChatMessage: the role, then the parts
stringifyMessage(m) ==
    IF m.role = "user"
    THEN <<"user", m.typed, IF m.image THEN "inlineData" ELSE "">>
    ELSE <<"model", m.text>>

\* JSON.parse of one ChatMessage
parseMessage(j) ==
    IF j[1] = "user"
    THEN [role |-> "user", typed |-> j[2], image |-> j[3] = "inlineData"]
    ELSE [role |-> "model", text |-> j[2]]

\* JSON.stringify(messages)
stringify(msgs) == [k \in 1..Len(msgs) |-> stringifyMessage(msgs[k])]

\* saved ? JSON.parse(saved) : [] (AIChat.tsx 27-30)
loadHistory(item) ==
    IF item.present THEN [k \in 1..Len(item.json) |-> parseMessage(item.json[k])]
    ELSE <<>>

saveHistory_onMountOnly(msgs) == stored

\* the save effect, which runs after every render that changed messages
\* (AIChat.tsx 48-51)
saveHistory(msgs) == [present |-> TRUE, json |-> stringify(msgs)]

\* ------------------------------------------------------------- AIChat
InitChat ==
    /\ messages = <<>>
    /\ input = <<>>
    /\ selectedFile = FALSE
    /\ isLoading = FALSE
    /\ sends = <<>>

\* onChange of the textarea
setInput(t) ==
    /\ input' = t
    /\ UNCHANGED <<messages, selectedFile, isLoading, sends>>
    /\ UNCHANGED <<appVars, formVars, feedVars, sideVars>>

\* AIChat.handleFileChange / removeFile
chat_handleFileChange ==
    /\ ~selectedFile
    /\ selectedFile' = TRUE
    /\ UNCHANGED <<messages, input, isLoading, sends>>
    /\ UNCHANGED <<appVars, formVars, feedVars, sideVars>>

chat_removeFile ==
    /\ selectedFile
    /\ selectedFile' = FALSE
    /\ UNCHANGED <<messages, input, isLoading, sends>>
    /\ UNCHANGED <<appVars, formVars, feedVars, sideVars>>

userMessage(s) == [role |-> "user", typed |-> Trim(s.input), image |-> s.file]

modelMessage(text) == [role |-> "model", text |-> text]

\* handleSend from "const newUserMsg" to the await of generateAIAnswer
\* (AIChat.tsx 183-201), for the invocation that captured input and file in s
chat_sendBody(s) ==
    /\ messages' = Append(messages, userMessage(s))
    /\ isLoading' = TRUE
    /\ input' = <<>>
    /\ selectedFile' = FALSE

\* handleSend is called (AIChat.tsx 168-181): the guard, then either the
\* FileReader await or straight on to the request
handleSend ==
    /\ Len(sends) < MaxSends
    /\ ~((Trim(input) = <<>> /\ ~selectedFile) \/ isLoading)
    /\ LET s == [input |-> input, file |-> selectedFile] IN
         IF selectedFile
         THEN /\ sends' = Append(sends, [pc |-> "reading", input |-> input,
                                        file |-> TRUE, ai |-> NoCall])
              /\ UNCHANGED <<messages, input, selectedFile, isLoading>>
         ELSE /\ sends' = Append(sends, [pc |-> "awaiting", input |-> input,
                                        file |-> FALSE,
                                        ai |-> generateAIAnswer_start(input, FALSE)])
              /\ chat_sendBody(s)
    /\ stored' = saveHistory(messages')
    /\ UNCHANGED mounts
    /\ UNCHANGED <<appVars, formVars, feedVars, authVars, tripVars, exceptStore>>

\* the FileReader promise of invocation i resolves (AIChat.tsx 175-181)
chat_fileRead(i) ==
    /\ sends[i].pc = "reading"
    /\ sends' = [sends EXCEPT ![i].pc = "awaiting",
                              ![i].ai = generateAIAnswer_start(sends[i].input, TRUE)]
    /\ chat_sendBody(sends[i])
    /\ stored' = saveHistory(messages')
    /\ UNCHANGED mounts
    /\ UNCHANGED <<appVars, formVars, feedVars, authVars, tripVars, exceptStore>>

\* what handleSend appends once the call has settled (AIChat.tsx 200-220)
aiReply(ai) ==
    IF ai.status = "threw"
    THEN modelMessage("Connection severed. Neural link unstable.")
    ELSE modelMessage(ai.text)

\* generateAIAnswer of invocation i settles; try / catch / finally
\* (AIChat.tsx 200-223)
chat_answerSettled(i, outcome) ==
    /\ sends[i].pc = "awaiting"
    /\ LET ai == generateAIAnswer_settle(sends[i].ai, outcome) IN
         /\ sends' = [sends EXCEPT ![i].pc = "done", ![i].ai = ai]
         /\ messages' = Append(messages, aiReply(ai))
    /\ isLoading' = FALSE
    /\ UNCHANGED <<input, selectedFile>>
    /\ stored' = saveHistory(messages')
    /\ UNCHANGED mounts
    /\ UNCHANGED <<appVars, formVars, feedVars, authVars, tripVars, exceptStore>>

\* AIChat.clearChat: the confirm dialog, then setMessages([]) and
\* removeItem; the save effect runs after the render (AIChat.tsx 55-60)
clearChat(confirmed) ==
    /\ IF confirmed
       THEN /\ messages' = <<>>
            /\ stored' = saveHistory(messages')
       ELSE UNCHANGED <<messages, stored>>
    /\ UNCHANGED <<input, selectedFile, isLoading, sends, mounts>>
    /\ UNCHANGED <<appVars, formVars, feedVars, authVars, tripVars, exceptStore>>

\* AIChat is unmounted and mounted again: its state is initialised anew,
\* messages from localStorage; the handleSend runs of the old instance set
\* the state of an unmounted component, which does nothing
chat_remount ==
    /\ mounts < MaxMounts
    /\ mounts' = mounts + 1
    /\ messages' = loadHistory(stored)
    /\ stored' = saveHistory(messages')
    /\ input' = <<>>
    /\ selectedFile' = FALSE
    /\ isLoading' = FALSE
    /\ sends' = [i \in 1..Len(sends) |->
                    IF sends[i].pc = "done" THEN sends[i]
                    ELSE [sends[i] EXCEPT !.pc = "unmounted"]]
    /\ UNCHANGED <<appVars, formVars, feedVars, authVars, tripVars, exceptStore>>

NextChat ==
    \/ \E t \in Texts : setInput(t)
    \/ chat_handleFileChange
    \/ chat_removeFile
    \/ handleSend
    \/ \E i \in 1..Len(sends) : chat_fileRead(i)
    \/ \E i \in 1..Len(sends), o \in GenOutcomes : chat_answerSettled(i, o)

\* ------------------------------------------------------------- backend rows
NoUser == [id |-> "none", username |-> "none"]

User1 == [id |-> "u1", username |-> "user1"]

NoUrl == "undefined"

Placeholder == "EIVA is analyzing your request..."

\* the row createPost inserts (storageService createPost); created_at is the
\* client's clock, later for a later post
postRow(post) ==
    [id |-> post.id, user_id |-> post.userId, username |-> post.userName,
     question |-> post.title, ai_answer |-> post.aiAnswer,
     image_url |-> post.imageUrl, space |-> post.category,
     created_at |-> post.id]

\* update({ ai_answer: answer }).eq('id', postId)
updateAnswer(rows, postId, answer) ==
    {IF r.id = postId THEN [r EXCEPT !.ai_answer = answer] ELSE r : r \in rows}

RECURSIVE orderByCreatedAt(_)
\* .order('created_at', { ascending: false })
orderByCreatedAt(rows) ==
    IF rows = {} THEN <<>>
    ELSE LET newest == CHOOSE r \in rows : \A o \in rows : o.created_at <= r.created_at
         IN <<newest>> \o orderByCreatedAt(rows \ {newest})

\* ------------------------------------------------------------- handleAskQuestion
SuccessToasts == {"Wisdom synced.", "EIVA analyzed your image!"}

NoToast == "null"

NoAsk ==
    [pc |-> "idle", postId |-> 0, user |-> NoUser, title |-> <<>>, category |-> "",
     file |-> FALSE, imageUrl |-> NoUrl, imagePart |-> FALSE, ai |-> NoCall,
     log |-> <<>>]

\* const newQuestion = { ... } (App.tsx 179-184)
newQuestion(a) ==
    [id |-> a.postId, userId |-> a.user.id, userName |-> a.user.username,
     title |-> a.title, aiAnswer |-> Placeholder, imageUrl |-> a.imageUrl,
     category |-> IF a.category = "" THEN "General" ELSE a.category]

\* await uploadPostImage(file, postId)
ask_callUpload(a) ==
    [a EXCEPT !.pc = "upload", !.log = Append(@, <<"start", "uploadPostImage">>)]

ask_callCreatePost_noAwait(a) ==
    [a EXCEPT !.pc = "generate",
              !.log = @ \o <<<<"start", "createPost">>, <<"start", "generateAIAnswer">>>>,
              !.ai = generateAIAnswer_start(a.title, a.imagePart)]

\* await createPost(newQuestion)
ask_callCreatePost(a) ==
    [a EXCEPT !.pc = "createPost", !.log = Append(@, <<"start", "createPost">>)]

\* await generateAIAnswer(title, imagePart), once createPost has settled
ask_callGenerate(a) ==
    [a EXCEPT !.pc = "generate",
              !.log = @ \o <<<<"settle", "createPost">>, <<"start", "generateAIAnswer">>>>,
              !.ai = generateAIAnswer_start(a.title, a.imagePart)]

\* await updatePostAIAnswer(postId, aiAnswer.text), once the answer is there
ask_callUpdate(a, ai) ==
    [a EXCEPT !.pc = "update", !.ai = ai,
              !.log = @ \o <<<<"settle", "generateAIAnswer">>,
                             <<"start", "updatePostAIAnswer">>>>]

ask_catch_noFinally(a, call) ==
    /\ ask' = [a EXCEPT !.pc = "failed", !.log = Append(@, <<"settle", call>>)]
    /\ toast' = "Creation failed. Please try again."
    /\ isAsking' = isAsking

\* the catch and finally blocks (App.tsx 189-194)
ask_catch(a, call) ==
    /\ ask' = [a EXCEPT !.pc = "failed", !.log = Append(@, <<"settle", call>>)]
    /\ toast' = "Creation failed. Please try again."
    /\ isAsking' = FALSE

\* handleAskQuestion up to its first await (App.tsx 157-185)
handleAskQuestion(t, category, file) ==
    IF currentUser = NoUser
    THEN UNCHANGED <<isAsking, ask, postSeq>>
    ELSE /\ isAsking' = TRUE
         /\ postSeq' = postSeq + 1
         /\ LET a == [NoAsk EXCEPT !.postId = postSeq + 1, !.user = currentUser,
                                   !.title = t, !.category = category, !.file = file]
            IN ask' = IF file THEN ask_callUpload(a) ELSE ask_callCreatePost(a)

\* uploadPostImage settles with the public URL, or with null when the upload
\* failed (storageService uploadPostImage; App.tsx 167-176)
ask_uploadSettled(ok) ==
    /\ ask.pc = "upload"
    /\ LET a == [ask EXCEPT !.log = Append(@, <<"settle", "uploadPostImage">>)] IN
         ask' = IF ok
                THEN [a EXCEPT !.pc = "readFile", !.imageUrl = "publicUrl"]
                ELSE ask_callCreatePost(a)
    /\ UNCHANGED <<currentUser, isAsking, toast, postSeq>>
    /\ UNCHANGED <<chatVars, formVars, feedVars, sideVars>>

\* the FileReader promise resolves (App.tsx 170-175)
ask_fileRead ==
    /\ ask.pc = "readFile"
    /\ ask' = ask_callCreatePost([ask EXCEPT !.imagePart = TRUE])
    /\ UNCHANGED <<currentUser, isAsking, toast, postSeq>>
    /\ UNCHANGED <<chatVars, formVars, feedVars, sideVars>>

\* createPost settles: the row is inserted, or the insert's error is thrown
\* (storageService createPost 190-202; App.tsx 185-186)
ask_createPostSettled(ok) ==
    /\ ask.pc = "createPost"
    /\ IF ok
       THEN /\ posts' = posts \cup {postRow(newQuestion(ask))}
            /\ pendingEvents' = pendingEvents + 1
            /\ ask' = ask_callGenerate(ask)
            /\ UNCHANGED <<toast, isAsking>>
       ELSE /\ ask_catch(ask, "createPost")
            /\ UNCHANGED <<posts, pendingEvents>>
    /\ UNCHANGED <<currentUser, postSeq, fetches, fetchSeq, questions>>
    /\ UNCHANGED <<chatVars, formVars, sideVars>>

\* generateAIAnswer settles (App.tsx 186-187)
ask_generateSettled(outcome) ==
    /\ ask.pc = "generate"
    /\ LET ai == generateAIAnswer_settle(ask.ai, outcome) IN
         IF ai.status = "threw"
         THEN ask_catch([ask EXCEPT !.ai = ai], "generateAIAnswer")
         ELSE /\ ask' = ask_callUpdate(ask, ai)
              /\ UNCHANGED <<toast, isAsking>>
    /\ UNCHANGED <<currentUser, postSeq>>
    /\ UNCHANGED <<chatVars, formVars, feedVars, sideVars>>

\* updatePostAIAnswer settles: the update was applied, or it failed and its
\* error, which nobody reads, is dropped (storageService updatePostAIAnswer
\* 204-206); then the success toast and the finally block (App.tsx 187-194)
ask_updateSettled(ok) ==
    /\ ask.pc = "update"
    /\ IF ok
       THEN /\ posts' = updateAnswer(posts, ask.postId, ask.ai.text)
            /\ pendingEvents' = pendingEvents + 1
       ELSE UNCHANGED <<posts, pendingEvents>>
    /\ ask' = [ask EXCEPT !.pc = "done",
                          !.log = Append(@, <<"settle", "updatePostAIAnswer">>)]
    /\ toast' = IF ask.imageUrl # NoUrl THEN "EIVA analyzed your image!"
                ELSE "Wisdom synced."
    /\ isAsking' = FALSE
    /\ UNCHANGED <<currentUser, postSeq, fetches, fetchSeq, questions>>
    /\ UNCHANGED <<chatVars, formVars, sideVars>>

\* setTimeout(() => setToast(null), 3000)
toastTimeout ==
    /\ toast # NoToast
    /\ toast' = NoToast
    /\ UNCHANGED <<currentUser, isAsking, ask, postSeq>>
    /\ UNCHANGED <<chatVars, formVars, feedVars, sideVars>>

\* ------------------------------------------------------------- AskQuestion form
\* onChange of the textarea
setTitle(t) ==
    /\ title' = t
    /\ UNCHANGED <<askFile, previewUrl, submitEvents>>
    /\ UNCHANGED <<chatVars, appVars, feedVars, sideVars>>

\* AskQuestion.handleFileChange
ask_handleFileChange ==
    /\ ~askFile
    /\ askFile' = TRUE
    /\ previewUrl' = TRUE
    /\ UNCHANGED <<title, submitEvents>>
    /\ UNCHANGED <<chatVars, appVars, feedVars, sideVars>>

\* AskQuestion.removeFile
ask_removeFile ==
    /\ askFile
    /\ askFile' = FALSE
    /\ previewUrl' = FALSE
    /\ UNCHANGED <<title, submitEvents>>
    /\ UNCHANGED <<chatVars, appVars, feedVars, sideVars>>

submitGuard_noTrim == title # <<>> /\ ~isAsking

\* if (title.trim() && !isLoading), with isLoading={isAsking}
submitGuard == Trim(title) # <<>> /\ ~isAsking

\* AskQuestion.handleSubmit (305-314), onAsk being
\* (title, _, file) => handleAskQuestion(title, 'General', file)
handleSubmit ==
    /\ submitEvents < MaxSubmits
    /\ submitEvents' = submitEvents + 1
    /\ IF submitGuard
       THEN /\ handleAskQuestion(Trim(title), "General", askFile)
            /\ title' = <<>>
            /\ askFile' = FALSE
            /\ previewUrl' = FALSE
       ELSE UNCHANGED <<title, askFile, previewUrl, isAsking, ask, postSeq>>
    /\ UNCHANGED <<currentUser, toast>>
    /\ UNCHANGED <<chatVars, feedVars, sideVars>>

\* ------------------------------------------------------------- listenToPosts
\* { data: null }: the select failed
NoData == [ok |-> FALSE, rows |-> <<>>]

\* { data: posts }
Data(rows) == [ok |-> TRUE, rows |-> rows]

\* posts.map(p => ({ ... })) of fetchAll (storageService 212-232)
formatPost(p) ==
    [id |-> p.id, userId |-> p.user_id, userName |-> p.username,
     title |-> p.question, aiAnswer |-> p.ai_answer, imageUrl |-> p.image_url,
     category |-> p.space, createdAt |-> p.created_at]

formatPosts(data) == [k \in 1..Len(data) |-> formatPost(data[k])]

\* a realtime notification arrives and runs fetchAll (storageService 237-242)
posts_onChange ==
    /\ pendingEvents > 0
    /\ Cardinality(fetches) < MaxFetches
    /\ pendingEvents' = pendingEvents - 1
    /\ fetchSeq' = fetchSeq + 1
    /\ fetches' = fetches \cup {[id |-> fetchSeq + 1, phase |-> "sent", data |-> NoData]}
    /\ UNCHANGED <<posts, questions>>
    /\ UNCHANGED <<chatVars, appVars, formVars, sideVars>>

\* the backend answers a select: the rows, newest first, or no data
fetch_answered(f, ok) ==
    /\ f \in fetches
    /\ f.phase = "sent"
    /\ fetches' = (fetches \ {f}) \cup
                    {[f EXCEPT !.phase = "answered",
                               !.data = IF ok THEN Data(orderByCreatedAt(posts)) ELSE NoData]}
    /\ UNCHANGED <<posts, pendingEvents, fetchSeq, questions>>
    /\ UNCHANGED <<chatVars, appVars, formVars, sideVars>>

setQuestions_merge(data) == questions \o formatPosts(data)

\* callback(formatted), which is setQuestions(posts) (App.tsx 100-102)
setQuestions(data) == formatPosts(data)

\* fetchAll resumes after its await (storageService 210-234)
fetch_settled(f) ==
    /\ f \in fetches
    /\ f.phase = "answered"
    /\ fetches' = fetches \ {f}
    /\ questions' = IF f.data.ok THEN setQuestions(f.data.rows) ELSE questions
    /\ UNCHANGED <<posts, pendingEvents, fetchSeq>>
    /\ UNCHANGED <<chatVars, appVars, formVars, sideVars>>

\* ------------------------------------------------------------- auth listener
\* the two storage service modules of the repository
Services == {"p010", "p011"}

\* a row of table users, as initializeUserData writes it
userRow(uid) == [id |-> uid, username |-> "user1"]

\* mapUser
mapUser(dbUser) == [id |-> dbUser.id, username |-> dbUser.username]

\* what the read of one profile can come back with: the row, no row
\* (PGRST116), or an error
ProfileOutcomes == {"found", "missing", "error"}

Possible(outcome, uid) ==
    CASE outcome = "found" -> userRow(uid) \in users
      [] outcome = "missing" -> userRow(uid) \notin users
      [] OTHER -> TRUE

NoHandler ==
    [pc |-> "done", uid |-> "none", round |-> 0, calls |-> <<>>, reads |-> <<>>,
     cb |-> <<>>]

\* the callback App gives to listenToAuth (App.tsx 88-98); refreshGlobalData
\* sends its two reads and does not wait for them
authCallback(user) ==
    /\ currentUser' = user
    /\ isAuthChecking' = FALSE
    /\ IF user # NoUser
       THEN lastUserIdRef' = user.id /\ appMode' = "choice"
       ELSE UNCHANGED <<lastUserIdRef, appMode>>

refreshGlobalData(user) ==
    IF user # NoUser THEN <<"spaces.select", "users.selectAll">> ELSE <<>>

auth_callback_twice(i, user) ==
    /\ handlers' = [handlers EXCEPT ![i].pc = "done",
                                    ![i].cb = @ \o <<user, user>>,
                                    ![i].calls = @ \o refreshGlobalData(user)]
    /\ authCallback(user)

\* the handler calls back and ends
auth_callback(i, user) ==
    /\ handlers' = [handlers EXCEPT ![i].pc = "done",
                                    ![i].cb = Append(@, user),
                                    ![i].calls = @ \o refreshGlobalData(user)]
    /\ authCallback(user)

\* supabase.auth.onAuthStateChange fires (both services): without a session
\* user the callback gets null at once, else fetchUserProfile sends its read
onAuthStateChange(u) ==
    /\ Len(handlers) < MaxAuthEvents
    /\ sessionUser' = u
    /\ IF u = "none"
       THEN /\ handlers' = Append(handlers, [NoHandler EXCEPT !.cb = <<NoUser>>])
            /\ authCallback(NoUser)
       ELSE /\ handlers' = Append(handlers,
                 [NoHandler EXCEPT !.pc = "profile", !.uid = u, !.round = 1,
                                   !.calls = <<"users.profile">>])
            /\ UNCHANGED <<currentUser, isAuthChecking, lastUserIdRef, appMode>>
    /\ UNCHANGED <<svc, users>>
    /\ UNCHANGED <<isAsking, toast, ask, postSeq>>
    /\ UNCHANGED <<chatVars, formVars, feedVars, tripVars, restVars>>

mayInitialize_again(h) == h.round <= 2

\* a missing profile is created, and read again, after the first read only
\* (listenToAuth 137-145; fetchUserProfile of the other service, 54-68)
mayInitialize(h) == h.round = 1

\* fetchUserProfile's read of the profile settles (storage service p010:
\* fetchUserProfile 62-99, listenToAuth 136-145)
auth_profileSettled(i, outcome) ==
    /\ svc = "p010"
    /\ handlers[i].pc = "profile"
    /\ Possible(outcome, handlers[i].uid)
    /\ LET h == [handlers[i] EXCEPT !.reads = Append(@, outcome)] IN
         IF outcome = "found"
         THEN /\ handlers' = [handlers EXCEPT ![i] =
                    [h EXCEPT !.pc = "follows",
                              !.calls = @ \o <<"follows.following", "follows.followers">>]]
              /\ UNCHANGED <<currentUser, isAuthChecking, lastUserIdRef, appMode>>
         ELSE IF mayInitialize(h)
         THEN /\ handlers' = [handlers EXCEPT ![i] =
                    [h EXCEPT !.pc = "upsert", !.calls = Append(@, "users.upsert")]]
              /\ UNCHANGED <<currentUser, isAuthChecking, lastUserIdRef, appMode>>
         ELSE /\ handlers' = [handlers EXCEPT ![i] =
                    [h EXCEPT !.pc = "done", !.cb = Append(@, NoUser)]]
              /\ authCallback(NoUser)
    /\ UNCHANGED <<svc, users, sessionUser>>
    /\ UNCHANGED <<isAsking, toast, ask, postSeq>>
    /\ UNCHANGED <<chatVars, formVars, feedVars, tripVars, restVars>>

\* the two reads of follows settle and fetchUserProfile returns the profile
\* (p010 fetchUserProfile 82-94)
auth_followsSettled(i) ==
    /\ svc = "p010"
    /\ handlers[i].pc = "follows"
    /\ auth_callback(i, mapUser(userRow(handlers[i].uid)))
    /\ UNCHANGED <<svc, users, sessionUser>>
    /\ UNCHANGED <<isAsking, toast, ask, postSeq>>
    /\ UNCHANGED <<chatVars, formVars, feedVars, tripVars, restVars>>

\* initializeUserData's upsert settles (p010 101-127): on an error it throws
\* into its own catch, and listenToAuth goes on to read the profile again
auth_upsertSettled(i, ok) ==
    /\ svc = "p010"
    /\ handlers[i].pc = "upsert"
    /\ IF ok
       THEN /\ users' = users \cup {userRow(handlers[i].uid)}
            /\ handlers' = [handlers EXCEPT ![i].pc = "system",
                                            ![i].calls = Append(@, "users.upsertSystem")]
       ELSE /\ users' = users
            /\ handlers' = [handlers EXCEPT ![i].pc = "profile", ![i].round = @ + 1,
                                            ![i].calls = Append(@, "users.profile")]
    /\ UNCHANGED <<svc, sessionUser, isAuthChecking, appMode, lastUserIdRef>>
    /\ UNCHANGED <<appVars, chatVars, formVars, feedVars, tripVars, restVars>>

\* initializeSystemAccount's upsert settles, the insert into follows is sent
\* (p010 118-122, 158-167)
auth_systemSettled(i) ==
    /\ svc = "p010"
    /\ handlers[i].pc = "system"
    /\ handlers' = [handlers EXCEPT ![i].pc = "follow",
                                    ![i].calls = Append(@, "follows.insert")]
    /\ UNCHANGED <<svc, users, sessionUser, isAuthChecking, appMode, lastUserIdRef>>
    /\ UNCHANGED <<appVars, chatVars, formVars, feedVars, tripVars, restVars>>

\* the insert into follows settles; listenToAuth reads the profile again
\* (p010 119-123, 143)
auth_followSettled(i) ==
    /\ svc = "p010"
    /\ handlers[i].pc = "follow"
    /\ handlers' = [handlers EXCEPT ![i].pc = "profile", ![i].round = @ + 1,
                                    ![i].calls = Append(@, "users.profile")]
    /\ UNCHANGED <<svc, users, sessionUser, isAuthChecking, appMode, lastUserIdRef>>
    /\ UNCHANGED <<appVars, chatVars, formVars, feedVars, tripVars, restVars>>

\* fetchUserProfile's read of the profile settles (storage service p011:
\* fetchUserProfile 50-88, the first read at 52 or the retry at 61)
svc11_profileSettled(i, outcome) ==
    /\ svc = "p011"
    /\ handlers[i].pc = "profile"
    /\ Possible(outcome, handlers[i].uid)
    /\ LET h == [handlers[i] EXCEPT !.reads = Append(@, outcome)] IN
         IF outcome = "found"
         THEN /\ handlers' = [handlers EXCEPT ![i] =
                    [h EXCEPT !.pc = "follows",
                              !.calls = Append(@, "follows.following")]]
              /\ UNCHANGED <<currentUser, isAuthChecking, lastUserIdRef, appMode>>
         ELSE IF mayInitialize(h)
         THEN /\ handlers' = [handlers EXCEPT ![i] =
                    [h EXCEPT !.pc = "getUser", !.calls = Append(@, "auth.getUser")]]
              /\ UNCHANGED <<currentUser, isAuthChecking, lastUserIdRef, appMode>>
         ELSE /\ handlers' = [handlers EXCEPT ![i] =
                    [h EXCEPT !.pc = "done", !.cb = Append(@, NoUser)]]
              /\ authCallback(NoUser)
    /\ UNCHANGED <<svc, users, sessionUser>>
    /\ UNCHANGED <<isAsking, toast, ask, postSeq>>
    /\ UNCHANGED <<chatVars, formVars, feedVars, tripVars, restVars>>

\* supabase.auth.getUser() settles with the session's user, or with none
\* (p011 56-59, 68)
svc11_getUserSettled(i, u) ==
    /\ svc = "p011"
    /\ handlers[i].pc = "getUser"
    /\ u \in {sessionUser, "none"}
    /\ IF u = handlers[i].uid
       THEN /\ handlers' = [handlers EXCEPT ![i].pc = "upsert",
                                            ![i].calls = Append(@, "users.upsert")]
            /\ UNCHANGED <<currentUser, isAuthChecking, lastUserIdRef, appMode>>
       ELSE /\ handlers' = [handlers EXCEPT ![i].pc = "done", ![i].cb = Append(@, NoUser)]
            /\ authCallback(NoUser)
    /\ UNCHANGED <<svc, users, sessionUser>>
    /\ UNCHANGED <<isAsking, toast, ask, postSeq>>
    /\ UNCHANGED <<chatVars, formVars, feedVars, tripVars, restVars>>

\* initializeUserData's upsert settles, its result unread, and the profile
\* is read again: "Retry fetch" (p011 59-61, 90-102)
svc11_upsertSettled(i, ok) ==
    /\ svc = "p011"
    /\ handlers[i].pc = "upsert"
    /\ users' = IF ok THEN users \cup {userRow(handlers[i].uid)} ELSE users
    /\ handlers' = [handlers EXCEPT ![i].pc = "profile", ![i].round = @ + 1,
                                    ![i].calls = Append(@, "users.profile")]
    /\ UNCHANGED <<svc, sessionUser, isAuthChecking, appMode, lastUserIdRef>>
    /\ UNCHANGED <<appVars, chatVars, formVars, feedVars, tripVars, restVars>>

\* the read of follows settles, fetchUserProfile returns the profile and
\* listenToAuth calls back (p011 62-65, 72-83, 107-108)
svc11_followsSettled(i) ==
    /\ svc = "p011"
    /\ handlers[i].pc = "follows"
    /\ auth_callback(i, mapUser(userRow(handlers[i].uid)))
    /\ UNCHANGED <<svc, users, sessionUser>>
    /\ UNCHANGED <<isAsking, toast, ask, postSeq>>
    /\ UNCHANGED <<chatVars, formVars, feedVars, tripVars, restVars>>

\* ------------------------------------------------------------- posts of p011
User2 == [id |-> "u2", username |-> "user2"]

\* the public URL uploadPostImage returns
PublicUrl == "publicUrl"

postRow11_userIdAsName(post) ==
    [id |-> post.id, user_id |-> post.userId, username |-> post.userId,
     question |-> post.title, ai_answer |-> post.aiAnswer, space |-> post.category,
     created_at |-> post.id]

\* the row createPost of p011 inserts: no image_url; created_at is the
\* table's default, later for a later post
postRow11(post) ==
    [id |-> post.id, user_id |-> post.userId, username |-> post.userName,
     question |-> post.title, ai_answer |-> post.aiAnswer, space |-> post.category,
     created_at |-> post.id]

\* posts.map(async p => ({ ... })) of fetchAll of p011
formatPost11(p) ==
    [id |-> p.id, userId |-> p.user_id, userName |-> p.username,
     title |-> p.question, aiAnswer |-> p.ai_answer, imageUrl |-> NoUrl,
     category |-> IF p.space = "" THEN "General" ELSE p.space,
     createdAt |-> p.created_at]

\* handleAskQuestion builds newQuestion and createPost inserts its row; the
\* insert can fail, and then createPost throws
rt_createPost(user, t, category, url, ok) ==
    /\ Len(written) < MaxRows
    /\ LET q == newQuestion([NoAsk EXCEPT !.postId = Len(written) + 1, !.user = user,
                                          !.title = t, !.category = category,
                                          !.imageUrl = url]) IN
         /\ written' = Append(written, q)
         /\ posts11' = IF ok THEN posts11 \cup {postRow11(q)} ELSE posts11
    /\ UNCHANGED readBack
    /\ UNCHANGED <<chatVars, appVars, formVars, feedVars, authVars, restVars>>

\* fetchAll of p011: the select comes back with the rows, newest first, or
\* with no data, and then the callback is not called
rt_fetchAll(ok) ==
    /\ readBack' = IF ok
                   THEN LET data == orderByCreatedAt(posts11)
                        IN [k \in 1..Len(data) |-> formatPost11(data[k])]
                   ELSE readBack
    /\ UNCHANGED <<posts11, written>>
    /\ UNCHANGED <<chatVars, appVars, formVars, feedVars, authVars, restVars>>

\* ------------------------------------------------------------- App: auth loading
\* GUEST_USER
GUEST_USER == [id |-> "guest_user", username |-> "guest"]

\* the login page is what App renders
LoginPageShown == ~isAuthChecking /\ currentUser = NoUser

\* the failsafe timer of the mount effect fires, 3 seconds after the mount
\* (App.tsx 117-127)
failsafeTimer ==
    /\ failsafe = "armed"
    /\ failsafe' = "fired"
    /\ isAuthChecking' = IF isAuthChecking THEN FALSE ELSE isAuthChecking
    /\ UNCHANGED <<logins, svc, users, sessionUser, handlers, appMode, lastUserIdRef>>
    /\ UNCHANGED <<chatVars, appVars, formVars, feedVars, tripVars, exceptStart>>

\* the guest button of the login page (App.tsx 291-295)
handleGuestLogin ==
    /\ LoginPageShown
    /\ currentUser' = GUEST_USER
    /\ isAuthChecking' = FALSE
    /\ appMode' = "choice"
    /\ UNCHANGED <<failsafe, logins, svc, users, sessionUser, handlers, lastUserIdRef>>
    /\ UNCHANGED <<isAsking, toast, ask, postSeq>>
    /\ UNCHANGED <<chatVars, formVars, feedVars, tripVars, exceptStart>>

\* the login page is submitted in its log-in mode: loginWithEmail is sent
\* (LoginPage.handleSubmit up to its await)
login_submit ==
    /\ LoginPageShown
    /\ Len(logins) < MaxLogins
    /\ logins' = Append(logins, [pc |-> "request", uid |-> "none"])
    /\ UNCHANGED <<failsafe, authVars>>
    /\ UNCHANGED <<chatVars, appVars, formVars, feedVars, tripVars, exceptStart>>

\* loginWithEmail settles; on success the session is the user's and
\* handleSubmit calls onLogin, which shows the spinner and sends
\* supabase.auth.getUser() (App.tsx 297-302)
onLogin(i, ok) ==
    /\ logins[i].pc = "request"
    /\ IF ok
       THEN /\ sessionUser' = "u1"
            /\ isAuthChecking' = TRUE
            /\ logins' = [logins EXCEPT ![i].pc = "getUser"]
       ELSE /\ logins' = [logins EXCEPT ![i].pc = "done"]
            /\ UNCHANGED <<sessionUser, isAuthChecking>>
    /\ UNCHANGED <<failsafe, svc, users, handlers, appMode, lastUserIdRef>>
    /\ UNCHANGED <<chatVars, appVars, formVars, feedVars, tripVars, exceptStart>>

\* getUser() settles: with the session's user refreshSelf is called, with
\* none or a rejection the spinner is stopped (App.tsx 302-317)
login_getUserSettled(i, outcome) ==
    /\ logins[i].pc = "getUser"
    /\ outcome = "user" => sessionUser # "none"
    /\ IF outcome = "user"
       THEN /\ logins' = [logins EXCEPT ![i].pc = "refreshSelf", ![i].uid = sessionUser]
            /\ UNCHANGED isAuthChecking
       ELSE /\ logins' = [logins EXCEPT ![i].pc = "done"]
            /\ isAuthChecking' = FALSE
    /\ UNCHANGED <<failsafe, svc, users, sessionUser, handlers, appMode, lastUserIdRef>>
    /\ UNCHANGED <<chatVars, appVars, formVars, feedVars, tripVars, exceptStart>>

\* fetchUserProfile of refreshSelf returns the profile or null (it catches
\* what its reads throw; p011 creates a missing profile on the way), then
\* the finally of onLogin runs (App.tsx 79-85, 306-312)
login_refreshSelfSettled(i, found) ==
    /\ logins[i].pc = "refreshSelf"
    /\ found /\ svc = "p010" => userRow(logins[i].uid) \in users
    /\ logins' = [logins EXCEPT ![i].pc = "done"]
    /\ IF found
       THEN /\ users' = users \cup {userRow(logins[i].uid)}
            /\ currentUser' = mapUser(userRow(logins[i].uid))
            /\ lastUserIdRef' = logins[i].uid
       ELSE UNCHANGED <<users, currentUser, lastUserIdRef>>
    /\ isAuthChecking' = FALSE
    /\ appMode' = "choice"
    /\ UNCHANGED <<failsafe, svc, sessionUser, handlers>>
    /\ UNCHANGED <<isAsking, toast, ask, postSeq>>
    /\ UNCHANGED <<chatVars, formVars, feedVars, tripVars, exceptStart>>

\* ------------------------------------------------------------- LoginPage
NoError == "null"

TimedOut == "Request timed out. Please check your internet connection or try again."

SignedUp == "Sign up successful! Please log in with your new credentials."

\* errorMessage of the catch: the message of what was thrown
AuthFailed == "Authentication failed. Please try again."

GoogleFailed == "Google Login failed."

\* the inputs and buttons of the form are disabled={loading || googleLoading}
lp_enabled == ~loading /\ ~googleLoading

\* the email input's onChange
lp_setEmail(v) ==
    /\ lp_enabled
    /\ email' = v
    /\ UNCHANGED <<password, isSignUp, error, loading, googleLoading, submits, onLoginCalls>>
    /\ UNCHANGED <<chatVars, appVars, formVars, feedVars, authVars, tripVars, exceptLp>>

\* the password input's onChange
lp_setPassword(v) ==
    /\ lp_enabled
    /\ password' = v
    /\ UNCHANGED <<email, isSignUp, error, loading, googleLoading, submits, onLoginCalls>>
    /\ UNCHANGED <<chatVars, appVars, formVars, feedVars, authVars, tripVars, exceptLp>>

\* the button that switches between log-in and sign-up
lp_toggleSignUp ==
    /\ lp_enabled
    /\ isSignUp' = ~isSignUp
    /\ UNCHANGED <<email, password, error, loading, googleLoading, submits, onLoginCalls>>
    /\ UNCHANGED <<chatVars, appVars, formVars, feedVars, authVars, tripVars, exceptLp>>

\* LoginPage.handleSubmit up to its await: without an email or a password
\* it returns; else it sets loading, clears the error, arms the 15 s timer,
\* whose callback closes over the loading of this render, and sends the
\* request
lp_handleSubmit ==
    /\ lp_enabled
    /\ Len(submits) < MaxLogins
    /\ IF email = "" \/ password = ""
       THEN UNCHANGED <<loading, error, submits>>
       ELSE /\ loading' = TRUE
            /\ error' = NoError
            /\ submits' = Append(submits, [pc |-> "request", isSignUp |-> isSignUp,
                                           loading |-> loading, timer |-> "armed"])
    /\ UNCHANGED <<email, password, isSignUp, googleLoading, onLoginCalls>>
    /\ UNCHANGED <<chatVars, appVars, formVars, feedVars, authVars, tripVars, exceptLp>>

\* the 15 s timer of a handleSubmit fires: if (loading) { setLoading(false);
\* setError("Request timed out...") }, with the loading of its closure
lp_timeout(i) ==
    /\ submits[i].timer = "armed"
    /\ submits' = [submits EXCEPT ![i].timer = "fired"]
    /\ IF submits[i].loading
       THEN loading' = FALSE /\ error' = TimedOut
       ELSE UNCHANGED <<loading, error>>
    /\ UNCHANGED <<email, password, isSignUp, googleLoading, onLoginCalls>>
    /\ UNCHANGED <<chatVars, appVars, formVars, feedVars, authVars, tripVars, exceptLp>>

\* signUpWithEmail or loginWithEmail settles: the try, the catch and the
\* finally of handleSubmit
lp_requestSettled(i, ok) ==
    /\ submits[i].pc = "request"
    /\ submits' = [submits EXCEPT ![i].pc = "done",
                                  ![i].timer = IF @ = "armed" THEN "cleared" ELSE @]
    /\ IF ~ok
       THEN error' = AuthFailed /\ UNCHANGED <<isSignUp, onLoginCalls>>
       ELSE IF submits[i].isSignUp
       THEN isSignUp' = FALSE /\ error' = SignedUp /\ UNCHANGED onLoginCalls
       ELSE onLoginCalls' = onLoginCalls + 1 /\ UNCHANGED <<isSignUp, error>>
    /\ loading' = FALSE
    /\ UNCHANGED <<email, password, googleLoading>>
    /\ UNCHANGED <<chatVars, appVars, formVars, feedVars, authVars, tripVars, exceptLp>>

\* LoginPage.handleGoogleLogin up to its await
lp_handleGoogleLogin ==
    /\ lp_enabled
    /\ onLoginCalls < MaxLogins
    /\ googleLoading' = TRUE
    /\ error' = NoError
    /\ UNCHANGED <<email, password, isSignUp, loading, submits, onLoginCalls>>
    /\ UNCHANGED <<chatVars, appVars, formVars, feedVars, authVars, tripVars, exceptLp>>

\* loginWithGoogle settles: onLogin(), or the catch
lp_googleSettled(ok) ==
    /\ googleLoading
    /\ IF ok
       THEN /\ onLoginCalls < MaxLogins
            /\ onLoginCalls' = onLoginCalls + 1
            /\ UNCHANGED <<error, googleLoading>>
       ELSE /\ error' = GoogleFailed
            /\ googleLoading' = FALSE
            /\ UNCHANGED onLoginCalls
    /\ UNCHANGED <<email, password, isSignUp, loading, submits>>
    /\ UNCHANGED <<chatVars, appVars, formVars, feedVars, authVars, tripVars, exceptLp>>

\* ------------------------------------------------------------- CallInterface
\* what the recognition can hear
Heard == Texts \ {<<>>}

\* new SpeechRecognition() of the effect, its handlers closing over the
\* transcript of the render
newRecognition(t) == [heard |-> t, state |-> "new", said |-> <<>>]

\* recognition.abort(): a session that runs is cut and will get its events
abort(r) ==
    IF r.state \in {"starting", "running", "ending"}
    THEN [r EXCEPT !.state = "aborting"] ELSE r

\* recognition.stop()
stop(r) ==
    IF r.state \in {"starting", "running"} THEN [r EXCEPT !.state = "ending"] ELSE r

\* the effect has [transcript] as its dependencies: it runs again when the
\* transcript of the render differs from the last one
effectDeps(t) == t # transcript

\* setTranscript(t) and the render after it: when the effect runs again its
\* cleanup aborts recognitionRef.current, and a new recognition is made
recognitionsAfter(rs, t) ==
    IF effectDeps(t)
    THEN Append([rs EXCEPT ![Len(rs)] = abort(@)], newRecognition(t))
    ELSE rs

\* the cleanup also calls synth.cancel(); the utterance cut may still get
\* its end event
utteranceAfter(u, t) ==
    IF effectDeps(t) /\ u = "speaking" THEN "cancelled" ELSE u

\* CallInterface.handleUserQuery up to its await
handleUserQuery(text) ==
    /\ status' = "thinking"
    /\ queries' = Append(queries, [text |-> text, pc |-> "thinking",
                                   ai |-> generateAIAnswer_start(text, FALSE)])

\* CallInterface.startListening
startListening ==
    /\ errorMessage' = IF status = "idle" /\ recs[Len(recs)].state \in {"starting", "running", "ending", "aborting"}
                       THEN "Could not start microphone." ELSE "null"
    /\ IF status = "idle" /\ recs[Len(recs)].state \in {"new", "ended"}
       THEN /\ recs' = [recs EXCEPT ![Len(recs)].state = "starting", ![Len(recs)].said = <<>>]
            /\ sessions' = sessions + 1
       ELSE UNCHANGED <<recs, sessions>>
    /\ UNCHANGED <<status, utterance>>

\* the mic button
handleMicClick ==
    /\ status \notin {"speaking", "listening"} => sessions < MaxSessions
    /\ CASE status = "speaking" ->
              /\ utterance' = IF utterance = "speaking" THEN "cancelled" ELSE utterance
              /\ status' = "idle"
              /\ UNCHANGED <<recs, errorMessage, sessions>>
         [] status = "listening" ->
              /\ recs' = [recs EXCEPT ![Len(recs)] = stop(@)]
              /\ UNCHANGED <<status, utterance, errorMessage, sessions>>
         [] OTHER -> startListening
    /\ UNCHANGED <<transcript, aiResponse, silenceTimer, queries>>
    /\ UNCHANGED <<oldVars, exceptCall>>

\* recognition.onstart
call_onstart(i) ==
    /\ recs[i].state = "starting"
    /\ status' = "listening"
    /\ transcript' = <<>>
    /\ errorMessage' = "null"
    /\ silenceTimer' = "none"
    /\ recs' = recognitionsAfter([recs EXCEPT ![i].state = "running"], <<>>)
    /\ utterance' = utteranceAfter(utterance, <<>>)
    /\ UNCHANGED <<aiResponse, queries, sessions>>
    /\ UNCHANGED <<oldVars, exceptCall>>

\* recognition.onresult: the transcript heard so far, and the silence timer
call_onresult(i, t) ==
    /\ recs[i].state = "running"
    /\ transcript' = t
    /\ silenceTimer' = "armed"
    /\ recs' = recognitionsAfter([recs EXCEPT ![i].said = t], t)
    /\ utterance' = utteranceAfter(utterance, t)
    /\ UNCHANGED <<status, aiResponse, errorMessage, queries, sessions>>
    /\ UNCHANGED <<oldVars, exceptCall>>

\* the silence timer fires, 1.5 s after the last result, which was not
\* empty: recognitionRef.current.stop()
call_silence ==
    /\ silenceTimer = "armed"
    /\ silenceTimer' = "none"
    /\ recs' = [recs EXCEPT ![Len(recs)] = stop(@)]
    /\ UNCHANGED <<status, transcript, aiResponse, errorMessage, queries, utterance, sessions>>
    /\ UNCHANGED <<oldVars, exceptCall>>

\* the browser ends a session by itself (continuous = false)
call_sessionOver(i) ==
    /\ recs[i].state = "running"
    /\ recs' = [recs EXCEPT ![i].state = "ending"]
    /\ UNCHANGED <<status, transcript, aiResponse, errorMessage, silenceTimer, queries, utterance, sessions>>
    /\ UNCHANGED <<oldVars, exceptCall>>

\* recognition.onerror: 'aborted' for a session that was aborted, else
\* 'no-speech' or 'not-allowed'; the session ends after it
call_onerror(i, e) ==
    /\ IF e = "aborted" THEN recs[i].state = "aborting"
       ELSE recs[i].state \in {"starting", "running"}
    /\ recs' = [recs EXCEPT ![i].state = "ending"]
    /\ errorMessage' = CASE e = "not-allowed" -> "Microphone access denied. Please allow permission."
                         [] e = "no-speech" -> errorMessage
                         [] OTHER -> "Error: aborted"
    /\ status' = "idle"
    /\ UNCHANGED <<transcript, aiResponse, silenceTimer, queries, utterance, sessions>>
    /\ UNCHANGED <<oldVars, exceptCall>>

\* recognition.onend: with the transcript of the handler's closure
call_onend(i) ==
    /\ recs[i].state \in {"ending", "aborting"}
    /\ recs' = [recs EXCEPT ![i].state = "ended"]
    /\ IF Len(Trim(recs[i].heard)) > 0
       THEN handleUserQuery(recs[i].heard)
       ELSE status' = "idle" /\ UNCHANGED queries
    /\ UNCHANGED <<transcript, aiResponse, errorMessage, silenceTimer, utterance, sessions>>
    /\ UNCHANGED <<oldVars, exceptCall>>

\* generateAIAnswer of a handleUserQuery settles; speak(aiText)
call_answerSettled(q, outcome) ==
    /\ queries[q].pc = "thinking"
    /\ LET ai == generateAIAnswer_settle(queries[q].ai, outcome) IN
         /\ queries' = [queries EXCEPT ![q].pc = "speaking", ![q].ai = ai]
         /\ aiResponse' = ai.text
    /\ status' = "speaking"
    /\ utterance' = "speaking"
    /\ UNCHANGED <<transcript, errorMessage, recs, silenceTimer, sessions>>
    /\ UNCHANGED <<oldVars, exceptCall>>

\* utterance.onend
call_utteranceEnd ==
    /\ utterance \in {"speaking", "cancelled"}
    /\ utterance' = "none"
    /\ status' = "idle"
    /\ transcript' = <<>>
    /\ recs' = recognitionsAfter(recs, <<>>)
    /\ UNCHANGED <<aiResponse, errorMessage, silenceTimer, queries, sessions>>
    /\ UNCHANGED <<oldVars, exceptCall>>

\* ------------------------------------------------------------- UserChat
\* the users one can chat with
Contacts == {"u2", "u3"}

\* what is typed into the message input: blank, or text to trim
Drafts == Texts \ {<<>>}

\* fetchMessages: the rows between the session's user and the contact,
\* oldest first; the model keeps the table in insertion order
conversation(table, me, contactId) ==
    SelectSeq(table, LAMBDA m : \/ (m.sender_id = me /\ m.receiver_id = contactId)
                                \/ (m.sender_id = contactId /\ m.receiver_id = me))

\* loadMessages(userId) is called: fetchMessages is sent
loadMessages(ls, userId) == Append(ls, [userId |-> userId, pc |-> "fetching"])

draftAfterSend_always(ok) == <<>>

\* setNewMessage('') stands in the try, after the await of sendMessage
draftAfterSend(ok) == IF ok THEN <<>> ELSE newMessage

\* the message input's onChange
setNewMessage(t) ==
    /\ newMessage' = t
    /\ UNCHANGED <<selectedUser, chatMessages, msgTable, ucSends, loads, ucSendEvents>>
    /\ UNCHANGED <<oldVars, exceptUc>>

\* a contact is selected, or the selection is dropped; the effect on
\* [selectedUser] loads the contact's messages (UserChat.tsx 171-180)
setSelectedUser(u) ==
    /\ u # selectedUser
    /\ u # "none" => Len(loads) < MaxLoads
    /\ selectedUser' = u
    /\ loads' = IF u # "none" THEN loadMessages(loads, u) ELSE loads
    /\ UNCHANGED <<newMessage, chatMessages, msgTable, ucSends, ucSendEvents>>
    /\ UNCHANGED <<oldVars, exceptUc>>

\* UserChat.handleSend up to its await: the guard, then sendMessage with the
\* trimmed draft, which first asks for the session's user
uc_handleSend ==
    /\ ucSendEvents < MaxChatSends
    /\ ucSendEvents' = ucSendEvents + 1
    /\ IF Trim(newMessage) = <<>> \/ selectedUser = "none"
       THEN UNCHANGED ucSends
       ELSE ucSends' = Append(ucSends, [pc |-> "getUser", to |-> selectedUser,
                                        content |-> Trim(newMessage), sender |-> "none"])
    /\ UNCHANGED <<newMessage, selectedUser, chatMessages, msgTable, loads>>
    /\ UNCHANGED <<oldVars, exceptUc>>

\* supabase.auth.getUser() of sendMessage settles and the insert is sent
\* (part_011 278-283)
uc_getUserSettled(i, me) ==
    /\ ucSends[i].pc = "getUser"
    /\ ucSends' = [ucSends EXCEPT ![i].pc = "insert", ![i].sender = me]
    /\ UNCHANGED <<newMessage, selectedUser, chatMessages, msgTable, loads, ucSendEvents>>
    /\ UNCHANGED <<oldVars, exceptUc>>

\* the insert settles: sendMessage returns, or throws the error; then the
\* rest of handleSend's try, or its catch (part_011 284-287, UserChat.tsx
\* 198-203)
uc_insertSettled(i, ok) ==
    /\ ucSends[i].pc = "insert"
    /\ ok => Len(loads) < MaxLoads
    /\ ucSends' = [ucSends EXCEPT ![i].pc = IF ok THEN "sent" ELSE "failed"]
    /\ msgTable' = IF ok
                   THEN Append(msgTable, [sender_id |-> ucSends[i].sender,
                                          receiver_id |-> ucSends[i].to,
                                          content |-> ucSends[i].content])
                   ELSE msgTable
    /\ newMessage' = draftAfterSend(ok)
    /\ loads' = IF ok THEN loadMessages(loads, ucSends[i].to) ELSE loads
    /\ UNCHANGED <<selectedUser, chatMessages, ucSendEvents>>
    /\ UNCHANGED <<oldVars, exceptUc>>

\* a realtime notification of an INSERT into messages, by whomever, runs
\* the listener of the effect: loadMessages(selectedUser.id) (UserChat.tsx
\* 174-177)
uc_onInsert ==
    /\ selectedUser # "none"
    /\ Len(loads) < MaxLoads
    /\ loads' = loadMessages(loads, selectedUser)
    /\ UNCHANGED <<newMessage, selectedUser, chatMessages, msgTable, ucSends, ucSendEvents>>
    /\ UNCHANGED <<oldVars, exceptUc>>

\* fetchMessages of a loadMessages settles: the conversation, or [] when
\* there is no session user or the select failed; setMessages(msgs)
\* (part_011 290-312, UserChat.tsx 182-186)
uc_loadSettled(k, ok) ==
    /\ loads[k].pc = "fetching"
    /\ loads' = [loads EXCEPT ![k].pc = "done"]
    /\ chatMessages' = IF ok THEN conversation(msgTable, "u1", loads[k].userId) ELSE <<>>
    /\ UNCHANGED <<newMessage, selectedUser, msgTable, ucSends, ucSendEvents>>
    /\ UNCHANGED <<oldVars, exceptUc>>

\* ------------------------------------------------------------- votes and follows
\* maybeSingle() answered without an error
NoRow == [id |-> 0]

PostIds == {1, 2}

Targets == {"u2", "u3", "u4"}

\* const dbType = type === 'up' ? 'like' : 'dislike'
dbType(type) == IF type = "up" THEN "like" ELSE "dislike"

\* the rows of likes of a post and a user
votesOf(table, postId, userId) ==
    {r \in table : r.post_id = postId /\ r.user_id = userId}

\* likes.select(...).eq('post_id', postId).eq('user_id', userId).maybeSingle()
maybeSingle(rows) ==
    IF Cardinality(rows) = 1 THEN CHOOSE r \in rows : TRUE ELSE NoRow

\* what toggleVote does after its select, in either storage service: p010
\* deletes a vote of the same type, changes the type of another and inserts
\* a missing one; p011 deletes the vote there is and else inserts a 'like'
voteOp(existing, type) ==
    IF svc = "p010"
    THEN IF existing # NoRow
         THEN IF existing.type = dbType(type)
              THEN [op |-> "delete", id |-> existing.id, type |-> ""]
              ELSE [op |-> "update", id |-> existing.id, type |-> dbType(type)]
         ELSE [op |-> "insert", id |-> 0, type |-> dbType(type)]
    ELSE IF existing # NoRow
         THEN [op |-> "delete", id |-> existing.id, type |-> ""]
         ELSE [op |-> "insert", id |-> 0, type |-> "like"]

\* likes and dislikes of a Question as fetchAll of listenToPosts builds them
likesOf(table, postId) ==
    IF svc = "p010"
    THEN {r.user_id : r \in {l \in table : l.post_id = postId /\ l.type = "like"}}
    ELSE {r.user_id : r \in {l \in table : l.post_id = postId}}

dislikesOf(table, postId) ==
    IF svc = "p010"
    THEN {r.user_id : r \in {l \in table : l.post_id = postId /\ l.type = "dislike"}}
    ELSE {}

\* App.handleVote: toggleVote sends its select
handleVote(postId, type) ==
    /\ Len(votes) < MaxVotes
    /\ currentUser # NoUser
    /\ votes' = Append(votes, [pc |-> "select", postId |-> postId,
                               userId |-> currentUser.id, type |-> type,
                               before |-> votesOf(likesTable, postId, currentUser.id),
                               write |-> [op |-> "none", id |-> 0, type |-> ""]])
    /\ UNCHANGED <<followsTable, follows, followSeq>>
    /\ UNCHANGED <<likesTable, likeSeq>>
    /\ UNCHANGED <<oldVars, exceptVote>>

\* the select of toggleVote is answered and the write is sent
vote_selectSettled(i) ==
    /\ votes[i].pc = "select"
    /\ votes' = [votes EXCEPT ![i].pc = "write",
                              ![i].write = voteOp(maybeSingle(votesOf(likesTable,
                                                   votes[i].postId, votes[i].userId)),
                                                  votes[i].type)]
    /\ UNCHANGED <<followsTable, follows, followSeq>>
    /\ UNCHANGED <<likesTable, likeSeq>>
    /\ UNCHANGED <<oldVars, exceptVote>>

\* the delete, update or insert of toggleVote is applied; its error, if any,
\* is not read. The repository declares no schema: an insert for a post and
\* user that have a row may be stored or be rejected by the table
vote_writeSettled(i, rejected) ==
    /\ votes[i].pc = "write"
    /\ rejected => /\ votes[i].write.op = "insert"
                   /\ votesOf(likesTable, votes[i].postId, votes[i].userId) # {}
    /\ votes' = [votes EXCEPT ![i].pc = "done"]
    /\ LET w == votes[i].write IN
         CASE rejected -> UNCHANGED <<likesTable, likeSeq>>
           [] w.op = "delete" ->
                /\ likesTable' = {r \in likesTable : r.id # w.id}
                /\ UNCHANGED likeSeq
           [] w.op = "update" ->
                /\ likesTable' = {IF r.id = w.id THEN [r EXCEPT !.type = w.type] ELSE r :
                                     r \in likesTable}
                /\ UNCHANGED likeSeq
           [] OTHER ->
                /\ likesTable' = likesTable \cup
                      {[id |-> likeSeq + 1, post_id |-> votes[i].postId,
                        user_id |-> votes[i].userId, type |-> w.type]}
                /\ likeSeq' = likeSeq + 1
    /\ UNCHANGED <<followsTable, follows, followSeq>>
    /\ UNCHANGED <<oldVars, exceptVote>>

\* the pairs of the follows relation
relation(table) == {<<r.follower_id, r.following_id>> : r \in table}

followOp_insert(existing) == [op |-> "insert", id |-> 0]

\* what toggleFollow does after its select
followOp(existing) ==
    IF existing # NoRow THEN [op |-> "delete", id |-> existing.id]
    ELSE [op |-> "insert", id |-> 0]

\* App.handleFollow: toggleFollow sends its select
handleFollow(userId) ==
    /\ Len(follows) < MaxFollows
    /\ currentUser # NoUser
    /\ follows' = Append(follows, [pc |-> "select", a |-> currentUser.id, b |-> userId,
                                   before |-> relation(followsTable),
                                   after |-> {},
                                   write |-> [op |-> "none", id |-> 0]])
    /\ UNCHANGED <<likesTable, likeSeq, votes, followsTable, followSeq>>
    /\ UNCHANGED <<oldVars, exceptVote>>

\* the select of toggleFollow is answered and the write is sent
follow_selectSettled(i) ==
    /\ follows[i].pc = "select"
    /\ follows' = [follows EXCEPT ![i].pc = "write",
                     ![i].write = followOp(maybeSingle(
                         {r \in followsTable : r.follower_id = follows[i].a
                                                /\ r.following_id = follows[i].b}))]
    /\ UNCHANGED <<likesTable, likeSeq, votes, followsTable, followSeq>>
    /\ UNCHANGED <<oldVars, exceptVote>>

\* the delete or insert of toggleFollow is applied
follow_writeSettled(i) ==
    /\ follows[i].pc = "write"
    /\ LET w == follows[i].write
           table == IF w.op = "delete"
                    THEN {r \in followsTable : r.id # w.id}
                    ELSE followsTable \cup
                           {[id |-> followSeq + 1, follower_id |-> follows[i].a,
                             following_id |-> follows[i].b]}
       IN /\ followsTable' = table
          /\ follows' = [follows EXCEPT ![i].pc = "done", ![i].after = relation(table)]
          /\ followSeq' = IF w.op = "delete" THEN followSeq ELSE followSeq + 1
    /\ UNCHANGED <<likesTable, likeSeq, votes>>
    /\ UNCHANGED <<oldVars, exceptVote>>

\* ------------------------------------------------------------- App: session
\* the modes of App
AppModes == {"choice", "ai", "chat"}

\* ModeSelector onSelect, Navbar onSwitchMode, onReturnToChoice: setAppMode
selectMode(m) ==
    /\ currentUser # NoUser
    /\ ~isAuthChecking
    /\ m # appMode
    /\ appMode' = m
    /\ UNCHANGED <<svc, users, sessionUser, handlers, isAuthChecking, lastUserIdRef>>
    /\ UNCHANGED <<chatVars, appVars, formVars, feedVars, tripVars, restVars>>

\* fetchUserProfile(uid) can return a profile: the row is there, or p011
\* creates it for the user of the session
canFind(uid) == userRow(uid) \in users \/ (svc = "p011" /\ sessionUser = uid)

\* a realtime notification of table users or follows: refreshGlobalData()
\* and, if (lastUserIdRef.current), refreshSelf(lastUserIdRef.current)
users_onChange ==
    /\ Len(refreshes) < MaxRefreshes
    /\ lastUserIdRef # "null"
    /\ refreshes' = Append(refreshes, [uid |-> lastUserIdRef, pc |-> "profile"])
    /\ UNCHANGED <<oldVars, exceptSess>>

\* fetchUserProfile of refreshSelf returns: if (updated) setLocalUser(updated)
refresh_settled(k, found) ==
    /\ refreshes[k].pc = "profile"
    /\ found => canFind(refreshes[k].uid)
    /\ refreshes' = [refreshes EXCEPT ![k].pc = IF found THEN "set" ELSE "null"]
    /\ IF found
       THEN /\ users' = users \cup {userRow(refreshes[k].uid)}
            /\ currentUser' = mapUser(userRow(refreshes[k].uid))
            /\ lastUserIdRef' = refreshes[k].uid
       ELSE UNCHANGED <<users, currentUser, lastUserIdRef>>
    /\ UNCHANGED <<svc, sessionUser, handlers, isAuthChecking, appMode>>
    /\ UNCHANGED <<isAsking, toast, ask, postSeq>>
    /\ UNCHANGED <<chatVars, formVars, feedVars, tripVars, exceptSess>>

\* ------------------------------------------------------------- specifications
\* App after login, with listenToPosts subscribed and its first fetchAll sent
InitApp ==
    /\ isAsking = FALSE
    /\ toast = NoToast
    /\ ask = NoAsk
    /\ postSeq = 0
    /\ title = <<>>
    /\ askFile = FALSE
    /\ previewUrl = FALSE
    /\ submitEvents = 0
    /\ posts = {}
    /\ pendingEvents = 0
    /\ fetchSeq = 1
    /\ fetches = {[id |-> 1, phase |-> "sent", data |-> NoData]}
    /\ questions = <<>>
    /\ posts11 = {}
    /\ written = <<>>
    /\ readBack = <<>>
    /\ logins = <<>>
    /\ email = ""
    /\ password = ""
    /\ isSignUp = FALSE
    /\ error = "null"
    /\ loading = FALSE
    /\ googleLoading = FALSE
    /\ submits = <<>>
    /\ onLoginCalls = 0
    /\ stored = [present |-> TRUE, json |-> <<>>]
    /\ mounts = 0
    /\ status = "idle"
    /\ transcript = <<>>
    /\ aiResponse = ""
    /\ errorMessage = "null"
    /\ recs = <<[heard |-> <<>>, state |-> "new", said |-> <<>>]>>
    /\ silenceTimer = "none"
    /\ queries = <<>>
    /\ utterance = "none"
    /\ sessions = 0
    /\ newMessage = <<>>
    /\ selectedUser = "none"
    /\ chatMessages = <<>>
    /\ msgTable = <<>>
    /\ ucSends = <<>>
    /\ loads = <<>>
    /\ ucSendEvents = 0
    /\ likesTable = {}
    /\ likeSeq = 0
    /\ votes = <<>>
    /\ followsTable = {}
    /\ followSeq = 0
    /\ follows = <<>>
    /\ refreshes = <<>>

\* the auth listener has called back with the profile of User1
InitSignedIn ==
    /\ svc = "p010"
    /\ users = {userRow(User1.id)}
    /\ sessionUser = User1.id
    /\ handlers = <<>>
    /\ currentUser = User1
    /\ isAuthChecking = FALSE
    /\ appMode = "choice"
    /\ lastUserIdRef = User1.id
    /\ failsafe = "fired"

\* App as mounted (App.tsx 48-72), over either storage service, the profile
\* of u1 in table users or not
InitMounted ==
    /\ svc \in Services
    /\ users \in {{}, {userRow(User1.id)}}
    /\ sessionUser = "none"
    /\ handlers = <<>>
    /\ currentUser = NoUser
    /\ isAuthChecking = TRUE
    /\ appMode = "choice"
    /\ lastUserIdRef = "null"
    /\ failsafe = "armed"

Init == InitChat /\ InitApp /\ InitSignedIn

InitAuth == InitChat /\ InitApp /\ InitMounted

NextAsk ==
    \/ \E t \in Texts : setTitle(t)
    \/ ask_handleFileChange
    \/ ask_removeFile
    \/ handleSubmit
    \/ \E ok \in BOOLEAN : ask_uploadSettled(ok)
    \/ ask_fileRead
    \/ \E ok \in BOOLEAN : ask_createPostSettled(ok)
    \/ \E o \in GenOutcomes : ask_generateSettled(o)
    \/ \E ok \in BOOLEAN : ask_updateSettled(ok)
    \/ toastTimeout

\* a submission as handleSubmit passes it on: a non-blank trimmed title, no
\* image, and none while another one is being handled. The feed is studied
\* with answers that carry text: what the answer says does not matter to it.
askQuestion(t) ==
    /\ postSeq < MaxSubmits
    /\ ~isAsking
    /\ handleAskQuestion(t, "General", FALSE)
    /\ UNCHANGED <<currentUser, toast>>
    /\ UNCHANGED <<chatVars, formVars, feedVars, sideVars>>

NextFeed ==
    \/ askQuestion(<<"a">>)
    \/ \E ok \in BOOLEAN : ask_createPostSettled(ok)
    \/ ask_generateSettled("text")
    \/ \E ok \in BOOLEAN : ask_updateSettled(ok)
    \/ posts_onChange
    \/ \E f \in fetches, ok \in BOOLEAN : fetch_answered(f, ok)
    \/ \E f \in fetches : fetch_settled(f)

\* the feed while every select of fetchAll comes back with data
NextRefetch ==
    \/ askQuestion(<<"a">>)
    \/ \E ok \in BOOLEAN : ask_createPostSettled(ok)
    \/ ask_generateSettled("text")
    \/ \E ok \in BOOLEAN : ask_updateSettled(ok)
    \/ posts_onChange
    \/ \E f \in fetches : fetch_answered(f, TRUE)
    \/ \E f \in fetches : fetch_settled(f)

NextAuth ==
    \/ \E u \in {"u1", "none"} : onAuthStateChange(u)
    \/ \E i \in 1..Len(handlers), o \in ProfileOutcomes : auth_profileSettled(i, o)
    \/ \E i \in 1..Len(handlers) : auth_followsSettled(i)
    \/ \E i \in 1..Len(handlers), ok \in BOOLEAN : auth_upsertSettled(i, ok)
    \/ \E i \in 1..Len(handlers) : auth_systemSettled(i)
    \/ \E i \in 1..Len(handlers) : auth_followSettled(i)
    \/ \E i \in 1..Len(handlers), o \in ProfileOutcomes : svc11_profileSettled(i, o)
    \/ \E i \in 1..Len(handlers), u \in {"u1", "none"} : svc11_getUserSettled(i, u)
    \/ \E i \in 1..Len(handlers), ok \in BOOLEAN : svc11_upsertSettled(i, ok)
    \/ \E i \in 1..Len(handlers) : svc11_followsSettled(i)

NextStart ==
    \/ failsafeTimer
    \/ handleGuestLogin
    \/ login_submit
    \/ \E i \in 1..Len(logins), ok \in BOOLEAN : onLogin(i, ok)
    \/ \E i \in 1..Len(logins), o \in {"user", "none", "reject"} :
         login_getUserSettled(i, o)
    \/ \E i \in 1..Len(logins), found \in BOOLEAN : login_refreshSelfSettled(i, found)
    \/ NextAuth

\* App from its mount: auth events, realtime notifications of users and
\* follows, the guest button and the mode buttons
NextSession ==
    \/ NextAuth
    \/ failsafeTimer
    \/ handleGuestLogin
    \/ \E m \in AppModes : selectMode(m)
    \/ users_onChange
    \/ \E k \in 1..Len(refreshes), found \in BOOLEAN : refresh_settled(k, found)

NextLoginPage ==
    \/ \E v \in {"", "a@b.c"} : lp_setEmail(v)
    \/ \E v \in {"", "secret"} : lp_setPassword(v)
    \/ lp_toggleSignUp
    \/ lp_handleSubmit
    \/ \E i \in 1..Len(submits) : lp_timeout(i)
    \/ \E i \in 1..Len(submits), ok \in BOOLEAN : lp_requestSettled(i, ok)
    \/ lp_handleGoogleLogin
    \/ \E ok \in BOOLEAN : lp_googleSettled(ok)

\* the history is studied with one draft, which has white space to trim,
\* and with answers that carry text or report an error
NextStore ==
    \/ setInput(<<" ", "a", " ">>)
    \/ chat_handleFileChange
    \/ handleSend
    \/ \E i \in 1..Len(sends) : chat_fileRead(i)
    \/ \E i \in 1..Len(sends), o \in {"text", "error"} : chat_answerSettled(i, o)
    \/ \E c \in BOOLEAN : clearChat(c)
    \/ chat_remount

NextCall ==
    \/ handleMicClick
    \/ \E i \in 1..Len(recs) : call_onstart(i)
    \/ \E i \in 1..Len(recs), t \in Heard : call_onresult(i, t)
    \/ call_silence
    \/ \E i \in 1..Len(recs) : call_sessionOver(i)
    \/ \E i \in 1..Len(recs), e \in {"aborted", "no-speech", "not-allowed"} :
         call_onerror(i, e)
    \/ \E i \in 1..Len(recs) : call_onend(i)
    \/ \E q \in 1..Len(queries), o \in GenOutcomes : call_answerSettled(q, o)
    \/ call_utteranceEnd

NextUserChat ==
    \/ \E t \in Drafts : setNewMessage(t)
    \/ \E u \in Contacts \cup {"none"} : setSelectedUser(u)
    \/ uc_handleSend
    \/ \E i \in 1..Len(ucSends), me \in {"u1", "none"} : uc_getUserSettled(i, me)
    \/ \E i \in 1..Len(ucSends), ok \in BOOLEAN : uc_insertSettled(i, ok)
    \/ uc_onInsert
    \/ \E k \in 1..Len(loads), ok \in BOOLEAN : uc_loadSettled(k, ok)

NextTrip ==
    \/ \E user \in {User1, User2}, t \in Texts, category \in {"", "AI"},
          url \in {NoUrl, PublicUrl}, ok \in BOOLEAN :
         rt_createPost(user, t, category, url, ok)
    \/ \E ok \in BOOLEAN : rt_fetchAll(ok)

\* every toggleVote call so far has returned
votesReturned == \A i \in 1..Len(votes) : votes[i].pc = "done"

\* votes cast one after the other, in either storage service
NextVote ==
    \/ \E p \in PostIds, t \in {"up", "down"} : votesReturned /\ handleVote(p, t)
    \/ \E i \in 1..Len(votes) : vote_selectSettled(i)
    \/ \E i \in 1..Len(votes), rejected \in BOOLEAN : vote_writeSettled(i, rejected)

\* votes cast without waiting for the call before, as QuestionCard allows
NextOverlap ==
    \/ \E p \in PostIds, t \in {"up", "down"} : handleVote(p, t)
    \/ \E i \in 1..Len(votes) : vote_selectSettled(i)
    \/ \E i \in 1..Len(votes), rejected \in BOOLEAN : vote_writeSettled(i, rejected)

\* every toggleFollow call so far has returned
followsReturned == \A i \in 1..Len(follows) : follows[i].pc = "done"

\* follow buttons pressed one after the other
NextFollow ==
    \/ \E u \in Targets : followsReturned /\ handleFollow(u)
    \/ \E i \in 1..Len(follows) : follow_selectSettled(i)
    \/ \E i \in 1..Len(follows) : follow_writeSettled(i)

\* the AI chat
SpecChat == Init /\ [][NextChat]_vars

\* the ask-question form and App.handleAskQuestion
SpecAsk == Init /\ [][NextAsk]_vars

\* submissions, the posts table and the realtime feed
SpecFeed == Init /\ [][NextFeed]_vars

\* the realtime feed with a backend that answers every select
SpecRefetch == Init /\ [][NextRefetch]_vars

\* the auth listener of either storage service and the callback of App
SpecAuth == InitAuth /\ [][NextAuth]_vars

\* createPost and fetchAll of storage service p011
SpecTrip == Init /\ [][NextTrip]_vars

\* App from its mount: the auth listener, the failsafe timer, the login
\* page's log-ins. A timer that is armed fires; nothing makes the auth
\* service answer.
SpecStart == InitAuth /\ [][NextStart]_vars /\ WF_vars(failsafeTimer)

\* the session of App
SpecSession == InitAuth /\ [][NextSession]_vars

\* the login page while App shows it
SpecLoginPage == InitAuth /\ [][NextLoginPage]_vars

\* the AI chat with its history in localStorage
SpecStore == Init /\ [][NextStore]_vars

\* the voice call
SpecCall == Init /\ [][NextCall]_vars

\* the chat between users
SpecUserChat == Init /\ [][NextUserChat]_vars

\* a signed-in user of either storage service
InitVote ==
    /\ InitChat
    /\ InitApp
    /\ svc \in Services
    /\ users = {userRow(User1.id)}
    /\ sessionUser = User1.id
    /\ handlers = <<>>
    /\ currentUser = User1
    /\ isAuthChecking = FALSE
    /\ appMode = "choice"
    /\ lastUserIdRef = User1.id
    /\ failsafe = "fired"

\* votes on posts
SpecVote == InitVote /\ [][NextVote]_vars

\* votes on posts, the calls overlapping
SpecOverlap == InitVote /\ [][NextOverlap]_vars

\* follows of users
SpecFollow == Init /\ [][NextFollow]_vars

Spec == SpecChat

\* ============================================================= claims
\* the generateAIAnswer calls that have come back to AIChat.handleSend
ReturnedCalls == {sends[i].ai : i \in {k \in 1..Len(sends) : sends[k].ai.status = "returned"}}

\* a classification request of the call came back with one of the six labels
Classified(ai) ==
    \E k \in 1..Len(ai.requests) :
        /\ ai.requests[k].kind = "classify"
        /\ ai.requests[k].label \in Labels

\* C1: every answered prompt took exactly two generative-AI requests, first a
\* classification request, then a request that carries the instruction
\* string of one of the six agents of AGENTS.
C1_TwoRequestsInSequence ==
    \A ai \in ReturnedCalls :
        /\ Len(ai.requests) = 2
        /\ ai.requests[1].kind = "classify"
        /\ \E l \in Labels : ai.requests[2].instruction = AGENTS[l].instruction

\* C2: an answer whose classification gave no valid label is still returned,
\* and its answering request carries the instruction string of the fallback
\* agent, AGENTS.GENERAL.
C2_FallbackToGeneral ==
    \A ai \in ReturnedCalls :
        ~Classified(ai) =>
            ai.requests[Len(ai.requests)].instruction = AGENTS["GENERAL"].instruction

C4_ConnectionSevered ==
    (\E i \in 1..Len(sends) : sends[i].pc = "done" /\ sends[i].ai.outcome = "error")
        => \E k \in 2..Len(messages) :
              /\ messages[k] = modelMessage("Connection severed. Neural link unstable.")
              /\ \E j \in 1..(k - 1) : messages[j].role = "user"

\* ------------------------------------------------------------- handleAskQuestion
CallOrder ==
    <<"uploadPostImage", "createPost", "generateAIAnswer", "updatePostAIAnswer">>

Rank(call) == CHOOSE k \in 1..Len(CallOrder) : CallOrder[k] = call

\* the calls of the log that have started and not settled
InFlight(log) ==
    {c \in {log[k][2] : k \in 1..Len(log)} :
        Cardinality({k \in 1..Len(log) : log[k] = <<"start", c>>})
            > Cardinality({k \in 1..Len(log) : log[k] = <<"settle", c>>})}

\* C5: the network calls of one handleAskQuestion submission never overlap:
\* every call settles before the next one starts, and they start in the order
\* upload (only when a file is given), createPost, generateAIAnswer,
\* updatePostAIAnswer, each at most once.
C5_Sequential ==
    /\ Cardinality(InFlight(ask.log)) <= 1
    /\ \A k \in 1..Len(ask.log) :
          IF k % 2 = 1
          THEN ask.log[k][1] = "start"
          ELSE ask.log[k] = <<"settle", ask.log[k - 1][2]>>
    /\ \A k, m \in 1..Len(ask.log) :
          (k < m /\ ask.log[k][1] = "start" /\ ask.log[m][1] = "start")
              => Rank(ask.log[k][2]) < Rank(ask.log[m][2])
    /\ \A k \in 1..Len(ask.log) :
          /\ ask.log[k][2] = "uploadPostImage" => ask.file
          /\ (ask.log[k] = <<"start", "createPost">> /\ ask.file)
                => (k = 3 /\ ask.log[2] = <<"settle", "uploadPostImage">>)

\* a submission with an image has made all four calls
C5_Witness ==
    ask.pc = "done" /\ ask.file /\ Len(ask.log) = 8

\* C6: while a success toast of the submission just handled is on screen, the
\* post is in the backend and its stored AI answer is the text generateAIAnswer
\* returned, not the placeholder.
C6_SuccessToastMeansSynced ==
    (ask.pc = "done" /\ toast \in SuccessToasts)
        => \E r \in posts :
              /\ r.id = ask.postId
              /\ r.ai_answer = ask.ai.text
              /\ r.ai_answer # Placeholder

\* ------------------------------------------------------------- feed
NewestFirst(qs) ==
    \A k \in 1..(Len(qs) - 1) : qs[k].createdAt > qs[k + 1].createdAt

\* C7: a realtime notification starts exactly one fetchAll; that fetch reads
\* the whole posts table, newest first; and when it comes back with data the
\* feed becomes exactly the fetched list, whatever it held before.
C7_RefetchAndReplace ==
    [][/\ pendingEvents' < pendingEvents =>
            /\ fetchSeq' = fetchSeq + 1
            /\ Cardinality(fetches') = Cardinality(fetches) + 1
            /\ \E f \in fetches' \ fetches : f.id = fetchSeq' /\ f.phase = "sent"
       /\ \A f \in fetches, g \in fetches' :
            (f.id = g.id /\ f.phase = "sent" /\ g.phase = "answered" /\ g.data.ok) =>
                /\ {g.data.rows[k] : k \in 1..Len(g.data.rows)} = posts
                /\ Len(g.data.rows) = Cardinality(posts)
       /\ \A f \in fetches :
            (f.phase = "answered" /\ f.data.ok /\ f \notin fetches') =>
                /\ Len(questions') = Len(f.data.rows)
                /\ \A k \in 1..Len(questions') :
                      /\ questions'[k].id = f.data.rows[k].id
                      /\ questions'[k].title = f.data.rows[k].question
                      /\ questions'[k].aiAnswer = f.data.rows[k].ai_answer
                /\ NewestFirst(questions')
       /\ \A f \in fetches :
            (f.phase = "answered" /\ ~f.data.ok /\ f \notin fetches') =>
                questions' = questions
      ]_vars

\* the feed holds two posts, fetched after the second one was answered
C7_Witness ==
    /\ Len(questions) = 2
    /\ questions[1].createdAt > questions[2].createdAt
    /\ questions[1].aiAnswer = ResponseText
    /\ fetchSeq >= 3

\* ------------------------------------------------------------- AskQuestion form
\* C9: a handleSubmit while the draft is empty or white space only, or while
\* isLoading is true, changes nothing: onAsk (handleAskQuestion) is not
\* called, and title, selected file and preview stay as they are.
C9_BlankSubmitIsNoOp ==
    [][(submitEvents' # submitEvents /\ (Trim(title) = <<>> \/ isAsking))
          => UNCHANGED <<title, askFile, previewUrl, ask, postSeq, isAsking, posts>>
      ]_vars

\* handleSubmit was called on a white-space draft with a file attached, and
\* no submission was ever passed on
C9_Witness ==
    /\ submitEvents = MaxSubmits
    /\ postSeq = 0
    /\ title = <<" ">>
    /\ askFile
    /\ previewUrl

\* how often a handler issued a call
Count(calls, c) == Cardinality({k \in 1..Len(calls) : calls[k] = c})

C11_AuthLoadingEnds == isAuthChecking ~> ~isAuthChecking

\* C12: when the 15 s timer of a handleSubmit fires while its request has
\* not settled, loading is set back to false and the error is "Request
\* timed out...".
C12_TimeoutForcesLoadingOff ==
    [][\A i \in 1..Len(submits) :
          submits[i].pc = "request" /\ submits[i].timer = "armed"
              /\ submits'[i].timer = "fired"
          => loading' = FALSE /\ error' = TimedOut]_vars

\* the submission has made the call
Called(a, call) == \E k \in 1..Len(a.log) : a.log[k] = <<"start", call>>

\* the submission ended in the catch because createPost threw
CreatePostFailed(a) ==
    a.pc = "failed" /\ a.log[Len(a.log)] = <<"settle", "createPost">>

\* C13: when createPost fails inside handleAskQuestion, generateAIAnswer and
\* updatePostAIAnswer are not called for that submission, the toast
\* "Creation failed. Please try again." is shown and isAsking is false; and
\* however a submission ends, isAsking is false then.
C13_CreatePostFailure ==
    [][/\ (ask.pc = "createPost" /\ CreatePostFailed(ask'))
          => toast' = "Creation failed. Please try again."
       /\ CreatePostFailed(ask')
          => /\ ~Called(ask', "generateAIAnswer")
             /\ ~Called(ask', "updatePostAIAnswer")
             /\ ~isAsking'
       /\ ask'.pc \in {"failed", "done"} => ~isAsking']_vars

\* C13, witness: a submission with an image has ended because createPost
\* failed, and its toast is on screen
C13_Witness ==
    /\ CreatePostFailed(ask)
    /\ ask.file
    /\ toast = "Creation failed. Please try again."
    /\ ~isAsking

\* C14: the handler of an auth state event invokes the callback exactly
\* once, when it ends and never before: with null when there is no session
\* user or no profile could be read, and with the user's profile when the
\* last profile read found it, which after a first read without a profile
\* is the read that follows the creating upsert.
C14_CallbackOnce ==
    \A i \in 1..Len(handlers) :
        LET h == handlers[i] IN
        /\ Len(h.cb) = IF h.pc = "done" THEN 1 ELSE 0
        /\ h.pc = "done" =>
              /\ h.uid = "none" => h.cb = <<NoUser>> /\ h.calls = <<>>
              /\ h.uid # "none" =>
                    h.cb = <<IF h.reads[Len(h.reads)] = "found"
                             THEN mapUser(userRow(h.uid)) ELSE NoUser>>
              /\ (h.cb # <<NoUser>> /\ Len(h.reads) = 2) =>
                    Count(h.calls, "users.upsert") = 1

\* C14, witness: one event without a session user was answered with null,
\* one with a session user whose profile could not be read or created was
\* answered with null too
C14_Witness ==
    /\ Len(handlers) = 2
    /\ handlers[1].pc = "done" /\ handlers[1].uid = "none"
    /\ handlers[2].pc = "done" /\ handlers[2].uid = "u1"
    /\ Len(handlers[2].reads) = 2
    /\ handlers[2].cb = <<NoUser>>

\* the messages of a role
OfRole(role) == {k \in 1..Len(messages) : messages[k].role = role}

\* the handleSend runs at one of the positions
SendsAt(pcs) == {i \in 1..Len(sends) : sends[i].pc \in pcs}

\* C15: every handleSend that passed its guard has appended exactly one
\* user message and, once its AI call has settled, exactly one model
\* message; isLoading is true from the first to the second, and false
\* once the call has settled.
C15_OneExchangePerSend ==
    /\ Cardinality(OfRole("user")) = Cardinality(SendsAt({"awaiting", "done"}))
    /\ Cardinality(OfRole("model")) = Cardinality(SendsAt({"done"}))
    /\ \A i \in SendsAt({"awaiting"}) : isLoading
    /\ SendsAt({"awaiting"}) = {} => ~isLoading

C17_TranscriptProcessed ==
    [][\A i \in 1..Len(recs) :
          (recs[i].state # "ended" /\ recs'[i].state = "ended"
              /\ Len(Trim(recs[i].said)) > 0)
          => /\ status' = "thinking"
             /\ Len(queries') = Len(queries) + 1
             /\ queries'[Len(queries')].text = recs[i].said
             /\ queries'[Len(queries')].ai.requests # <<>>]_vars

\* C18: UserChat.handleSend with a blank draft or without a selected user
\* does nothing; when sendMessage fails the draft is kept and no
\* loadMessages is started; when it succeeds the draft is cleared and the
\* conversation with the contact is fetched again.
C18_ChatSend ==
    [][/\ (ucSendEvents' # ucSendEvents
              /\ (Trim(newMessage) = <<>> \/ selectedUser = "none"))
          => UNCHANGED <<newMessage, selectedUser, chatMessages, msgTable, ucSends, loads>>
       /\ \A i \in 1..Len(ucSends) :
             /\ (ucSends[i].pc = "insert" /\ ucSends'[i].pc = "failed")
                   => /\ newMessage' = newMessage
                      /\ loads' = loads
                      /\ chatMessages' = chatMessages
                      /\ msgTable' = msgTable
             /\ (ucSends[i].pc = "insert" /\ ucSends'[i].pc = "sent")
                   => /\ newMessage' = <<>>
                      /\ Len(loads') = Len(loads) + 1
                      /\ loads'[Len(loads')] = [userId |-> ucSends[i].to, pc |-> "fetching"]]_vars

\* C18, witness: one send has failed and left a draft that is not blank,
\* another has succeeded and its reload shows the message
C18_Witness ==
    /\ \E i \in 1..Len(ucSends) : ucSends[i].pc = "failed"
    /\ \E i \in 1..Len(ucSends) : ucSends[i].pc = "sent"
    /\ Len(chatMessages) = 1
    /\ ucSendEvents = 2

\* C19: toggleVote is a standard vote toggle per post and user: with no vote,
\* 'up' records a like and 'down' a dislike; the same vote again removes it;
\* the opposite vote changes the type; so after toggleVote calls made one
\* after the other there is at most one row of likes per post and user, and
\* no user is in both the likes and the dislikes of a post.
C19_StandardToggle ==
    [][\A i \in 1..Len(votes) :
          (votes[i].pc = "write" /\ votes'[i].pc = "done") =>
              LET was == {r.type : r \in votes[i].before}
                  now == {r.type : r \in votesOf(likesTable', votes[i].postId, votes[i].userId)}
                  asked == dbType(votes[i].type)
              IN /\ was = {} => now = {asked}
                 /\ was = {asked} => now = {}
                 /\ (was # {} /\ was # {asked}) => now = {asked}
                 /\ Cardinality(votesOf(likesTable', votes[i].postId, votes[i].userId)) <= 1
                 /\ \A p \in PostIds :
                       likesOf(likesTable', p) \cap dislikesOf(likesTable', p) = {}]_vars

C21_FeedIsCurrent ==
    (pendingEvents = 0 /\ fetches = {}) =>
        questions = formatPosts(orderByCreatedAt(posts))

\* C22: after the auth listener has reported the sign-out, currentUser stays
\* null until a login or the guest login: no refreshSelf started by a
\* realtime notification of users or follows sets the user again, and none
\* replaces the guest user.
C22_SignedOutStays ==
    [][refreshes' # refreshes =>
          /\ currentUser = NoUser => currentUser' = NoUser
          /\ currentUser = GUEST_USER => currentUser' = GUEST_USER]_vars

\* C23: while a user stays signed in, appMode changes only when the user
\* selects a mode: no step of the auth listener and no realtime
\* notification changes it.
C23_ModeIsUsersChoice ==
    [][(/\ currentUser \notin {NoUser, GUEST_USER}
        /\ currentUser' = currentUser
        /\ appMode' # appMode) => UNCHANGED <<handlers, refreshes>>]_vars

\* C24: also when toggleVote calls for one post and user overlap, table
\* likes holds at most one row for that post and user once the calls have
\* returned.
C24_OneRowAfterOverlap ==
    votesReturned =>
        \A p \in PostIds : Cardinality(votesOf(likesTable, p, "u1")) <= 1
====
